---- MODULE Spec2Model ----
(***************************************************************************)
(* A model of rgx's core (src/core/mod.rs): the one-shot canvas operations *)
(* run by Renderer::prepare (clear / fill / transfer / blit), the binding  *)
(* model (BindingGroupLayout / BindingGroup), the command scoping protocol *)
(* (Frame / Pass / submit), the GPU queue and readback (Renderer::read),   *)
(* SwapChain and VertexLayout.                                             *)
(*                                                                         *)
(* Conventions.                                                            *)
(*  - u32 / usize values are plain integers: every length, dimension and   *)
(*    product of the model stays far below 2^32 (TLC's integers are        *)
(*    narrower than that and it stops on overflow), so `len as u32` and    *)
(*    u32 multiplication never wrap in the checked states.                 *)
(*  - An f32 is represented by the integer number of halves it holds       *)
(*    (3 stands for 1.5).  All f32 values of the model are small multiples *)
(*    of 0.5, on which f32 subtraction, negation and comparison are exact. *)
(*  - A panic (failed assert!/assert_eq!) terminates the program: `fatal`  *)
(*    records the message and no action is enabled afterwards.             *)
(*  - `call` is a history variable: the inputs of the last operation and   *)
(*    the length of the encoder it was handed.                             *)
(***************************************************************************)
EXTENDS Integers, Sequences, FiniteSets, TLC

VARIABLES
    textures,   \* Seq of Texture / Framebuffer objects created so far
    pc,         \* Renderer::prepare: "idle" or "encoding"
    enc,        \* the command encoder of the running Renderer::prepare call
    nops,       \* number of Ops of the running prepare call already encoded
    queue,      \* the GPU queue: Seq of submitted batches
    fatal,      \* "none", or the message of the panic that ended the program
    call,       \* history: the last operation called and its inputs
    layouts,    \* Seq of BindingGroupLayout objects created so far
    groups,     \* Seq of BindingGroup objects created so far
    backend,    \* number of backend bind groups created (wgpu create_bind_group)
    buffers,    \* Seq of VertexBuffer / IndexBuffer / UniformBuffer objects
    frames,     \* Seq of Frame objects created so far
    ncalls,     \* history: number of calls made on the Renderer so far
    issued,     \* history: per Frame, the commands in the order they were issued
    commands,   \* the Op list handed to the running Renderer::prepare call
    calls,      \* history: the Renderer calls that submit, in call order
    gpu,        \* the GPU: batches of the queue executed, texture memory
    reads,      \* Seq of Renderer::read requests and their completion closures
    chains      \* Seq of SwapChain objects created so far

vars == <<textures, pc, enc, nops, queue, fatal, call, layouts, groups,
          backend, buffers, frames, ncalls, issued, commands, calls, gpu,
          reads, chains>>

---------------------------------------------------------------------------
(* Bounds *)

MaxCalls == 3      \* calls per run: creations, prepare, Ops, Frame and Pass methods
MaxSlots == 2      \* slots per binding group layout
MaxFormats == 3    \* attributes per vertex layout
MaxSets == 2       \* binding sets per pipeline layout

---------------------------------------------------------------------------
(* Machine arithmetic and value types *)

\* `n as u32` for a usize n below 2^32.
AsU32(n) == n

\* u32 multiplication of operands whose product is below 2^32.
MulU32(a, b) == a * b

\* `x as u32` for an f32 x (in halves) below 2^32: truncation toward zero.
F32AsU32(v) == IF v < 0 THEN 0 ELSE v \div 2

\* `(x * 255.0).round() as u8` for an f32 x (in halves) with 0 <= x:
\* round half away from zero, saturating.
F32ToU8(v) ==
    LET r == (v * 255 + 1) \div 2
    IN  IF r > 255 THEN 255 ELSE r

\* The little-endian bytes of an f32 (in halves); total on the values used.
F32Bytes(v) ==
    CASE v = 0 -> <<0, 0, 0, 0>>
      [] v = 1 -> <<0, 0, 0, 63>>
      [] v = 2 -> <<0, 0, 128, 63>>

Rgba(r, g, b, a) == [r |-> r, g |-> g, b |-> b, a |-> a]

Rgba8_from_Rgba(c) ==
    [r |-> F32ToU8(c.r), g |-> F32ToU8(c.g), b |-> F32ToU8(c.b), a |-> F32ToU8(c.a)]

Bgra8_from_Rgba8(c) == [b |-> c.b, g |-> c.g, r |-> c.r, a |-> c.a]

\* Memory layout of the #[repr(C)] colour structs, as seen by align_to::<u8>.
Bgra8Bytes_rgba(c) == <<c.r, c.g, c.b, c.a>>

Bgra8Bytes(c) == <<c.b, c.g, c.r, c.a>>

RgbaBytes(c) == F32Bytes(c.r) \o F32Bytes(c.g) \o F32Bytes(c.b) \o F32Bytes(c.a)

Rect(x1, y1, x2, y2) == [x1 |-> x1, y1 |-> y1, x2 |-> x2, y2 |-> y2]

Rect_width(r) ==
    LET w == r.x2 - r.x1
    IN  IF w < 0 THEN -w ELSE w

Rect_height(r) ==
    LET h == r.y2 - r.y1
    IN  IF h < 0 THEN -h ELSE h

Extent3d(w, h) == [width |-> w, height |-> h, depth |-> 1]

---------------------------------------------------------------------------
(* Inputs *)

RED == Rgba(2, 0, 0, 2)
TRANSPARENT == Rgba(0, 0, 0, 0)

ColorIn == {RED, TRANSPARENT, Rgba(1, 2, 0, 2)}

\* Widths and heights of textures and of transfer regions.
DimIn == {1, 2}

\* Byte buffers handed to fill / transfer: every length up to one texel more
\* than the largest texture, plus one byte.
LenIn == 0 .. 21

\* Lengths handed to transfer for a w x h source: from one byte short of
\* 4*w*h to one texel more.
LenNear(w, h) == (4 * w * h - 1) .. (4 * w * h + 4)

Bytes(n) == [i \in 1..n |-> 7]

\* Rectangles handed to blit, in halves: integral and fractional sizes, both
\* orientations.
RectIn == {Rect(x1, 0, x2, y2) : x1 \in {0, 1}, x2 \in {-2, 3}, y2 \in {2, 3}}

---------------------------------------------------------------------------
(* Outcome of an operation that records into an encoder: the commands it   *)
(* appends, or the panic that ends the program.                            *)

Ok(cmds) == [panic |-> "none", cmds |-> cmds]

Panic(msg) == [panic |-> msg, cmds |-> <<>>]

---------------------------------------------------------------------------
(* Device::create_texture / Device::create_framebuffer *)

Device_create_texture(w, h) ==
    [kind |-> "Texture", w |-> w, h |-> h, extent |-> Extent3d(w, h),
     format |-> "Rgba8Unorm", usage |-> {"SAMPLED", "COPY_DST"}]

Device_create_framebuffer(w, h) ==
    [kind |-> "Framebuffer", w |-> w, h |-> h, extent |-> Extent3d(w, h),
     format |-> "Bgra8Unorm",
     usage |-> {"SAMPLED", "COPY_DST", "COPY_SRC", "OUTPUT_ATTACHMENT"}]

---------------------------------------------------------------------------
(* Texture::copy, fill, clear, transfer, blit *)

Texture_copy(t, w, h, extent, buffer) ==
    <<[type |-> "CopyBufferToTexture", texture |-> t, buffer |-> buffer,
       offset |-> 0, row_pitch |-> MulU32(4, w), image_height |-> h,
       origin |-> <<0, 0, 0>>, extent |-> extent]>>

\* assert_eq!(texels.len() as u32, texture.w * texture.h * 4)
FillLenOk_lax(tex, texels) ==
    AsU32(Len(texels)) <= MulU32(MulU32(tex.w, tex.h), 4)

FillLenOk(tex, texels) ==
    AsU32(Len(texels)) = MulU32(MulU32(tex.w, tex.h), 4)

Texture_fill(t, texels) ==
    LET tex == textures[t]
    IN  IF ~FillLenOk(tex, texels)
        THEN Panic("fatal: incorrect length for texel buffer")
        ELSE Ok(Texture_copy(t, tex.w, tex.h, tex.extent, texels))

\* texels.resize(w * h, color); texels.align_to::<u8>()
RECURSIVE Repeat(_, _)
Repeat(elem, n) == IF n = 0 THEN <<>> ELSE elem \o Repeat(elem, n - 1)

Texture_clear_texels(tex, elemBytes) == Repeat(elemBytes, tex.w * tex.h)

Texture_clear(t, elemBytes) ==
    Texture_fill(t, Texture_clear_texels(textures[t], elemBytes))

\* assert_eq!(texels.len() as u32 / 4, width * height)
TransferLenOk(texels, width, height) ==
    AsU32(Len(texels)) \div 4 = MulU32(width, height)

\* assert!(transfer_w * transfer_h <= texture.w * texture.h)
TransferSizeOk(tex, transfer_w, transfer_h) ==
    MulU32(transfer_w, transfer_h) <= MulU32(tex.w, tex.h)

Texture_transfer(t, texels, width, height, transfer_w, transfer_h) ==
    LET tex == textures[t]
    IN  IF ~TransferLenOk(texels, width, height)
        THEN Panic("fatal: incorrect length for texel buffer")
        ELSE IF ~TransferSizeOk(tex, transfer_w, transfer_h)
        THEN Panic("fatal: transfer size must be <= texture size")
        ELSE Ok(Texture_copy(t, width, height,
                             Extent3d(transfer_w, transfer_h), texels))

\* assert_eq!(src.width(), dst.width()); assert_eq!(src.height(), dst.height())
BlitSizeOk_lax(src, dst) == Rect_width(src) = Rect_width(dst)

BlitSizeOk(src, dst) ==
    /\ Rect_width(src) = Rect_width(dst)
    /\ Rect_height(src) = Rect_height(dst)

Texture_blit(t, src, dst) ==
    IF ~BlitSizeOk(src, dst)
    THEN Panic("source and destination rectangles must be of the same size")
    ELSE Ok(<<[type |-> "CopyTextureToTexture", texture |-> t,
               src_origin |-> <<src.x1, src.y1, 0>>,
               dst_origin |-> <<dst.x1, dst.y1, 0>>,
               extent |-> Extent3d(F32AsU32(Rect_width(src)),
                                   F32AsU32(Rect_height(src)))]>>)

---------------------------------------------------------------------------
(* impl Canvas for Framebuffer / impl Canvas for Texture *)

Framebuffer_clear(t, color) ==
    Texture_clear(t, Bgra8Bytes(Bgra8_from_Rgba8(Rgba8_from_Rgba(color))))

\* Texture::clear::<Rgba>: the element type is the 16-byte Rgba itself.
Canvas_Texture_clear(t, color) == Texture_clear(t, RgbaBytes(color))

Canvas_clear(t, color) ==
    IF textures[t].kind = "Framebuffer"
    THEN Framebuffer_clear(t, color)
    ELSE Canvas_Texture_clear(t, color)

Canvas_fill(t, buf) == Texture_fill(t, buf)

Canvas_transfer(t, buf, w, h, tw, th) == Texture_transfer(t, buf, w, h, tw, th)

Canvas_blit(t, src, dst) == Texture_blit(t, src, dst)

---------------------------------------------------------------------------
(* Device::submit: one batch handed to the queue.  `by` is history: the    *)
(* call that submitted the batch.                                          *)

Device_submit_front(by, cmds) == <<[by |-> by, buffers |-> cmds]>> \o queue

Device_submit(by, cmds) == Append(queue, [by |-> by, buffers |-> cmds])

ByPrepare == [call |-> "prepare", frame |-> 0]

BySubmit(f) == [call |-> "submit", frame |-> f]

ByRead(r) == [call |-> "read", frame |-> 0, read |-> r]

---------------------------------------------------------------------------
(* Initial state: a Renderer has been constructed, nothing created yet.    *)

NoCall == [op |-> "none"]

\* The GPU has executed no batch and no texture has been written.
NoGpuWork == [done |-> 0, mem |-> <<>>]

\* History entry of a Renderer call that submits: who, and its argument.
CallOf(by, arg) == [by |-> by, arg |-> arg]

Init ==
    /\ textures = <<>>
    /\ pc = "idle"
    /\ enc = <<>>
    /\ nops = 0
    /\ queue = <<>>
    /\ fatal = "none"
    /\ call = NoCall
    /\ layouts = <<>>
    /\ groups = <<>>
    /\ backend = 0
    /\ buffers = <<>>
    /\ frames = <<>>
    /\ ncalls = 0
    /\ issued = <<>>
    /\ commands = <<>>
    /\ calls = <<>>
    /\ gpu = NoGpuWork
    /\ reads = <<>>
    /\ chains = <<>>

Running == fatal = "none"

\* One more call is made.
Called == ncalls < MaxCalls /\ ncalls' = ncalls + 1

---------------------------------------------------------------------------
(* Renderer::texture / Renderer::framebuffer *)

CreateTexture(w, h) ==
    /\ Running /\ pc = "idle"
    /\ Called
    /\ textures' = Append(textures, Device_create_texture(w, h))
    /\ UNCHANGED <<pc, enc, nops, queue, fatal, call, layouts, groups,
                   backend, buffers, frames, issued,
                   commands, calls, gpu, reads, chains>>

CreateFramebuffer(w, h) ==
    /\ Running /\ pc = "idle"
    /\ Called
    /\ textures' = Append(textures, Device_create_framebuffer(w, h))
    /\ UNCHANGED <<pc, enc, nops, queue, fatal, call, layouts, groups,
                   backend, buffers, frames, issued,
                   commands, calls, gpu, reads, chains>>

---------------------------------------------------------------------------
(* Renderer::prepare(commands), one step per statement: create the encoder, *)
(* encode the Ops of the list in order (Op::encode), submit.  The list is   *)
(* the caller's: each Op is drawn when the loop reaches it.                 *)

PrepareBegin ==
    /\ Running /\ pc = "idle"
    /\ Called
    /\ pc' = "encoding"
    /\ enc' = <<>>
    /\ nops' = 0
    /\ calls' = Append(calls, CallOf(ByPrepare, <<>>))
    /\ UNCHANGED <<textures, queue, fatal, call, layouts, groups, backend,
                   buffers, frames, issued, commands, gpu, reads, chains>>

\* The effect of one Op::encode whose canvas call returned `res`.
Encode(res, c) ==
    /\ call' = c
    /\ nops' = nops + 1
    /\ IF res.panic = "none"
       THEN /\ enc' = enc \o res.cmds
            /\ UNCHANGED fatal
       ELSE /\ fatal' = res.panic
            /\ UNCHANGED enc
    /\ UNCHANGED <<textures, pc, queue, layouts, groups, backend, buffers,
                   frames, issued,
                   commands, calls, gpu, reads, chains>>

Encoding == Running /\ pc = "encoding" /\ Called

OpClear(t, color) ==
    /\ Encoding
    /\ Encode(Canvas_clear(t, color),
              [op |-> "clear", t |-> t, color |-> color, before |-> Len(enc)])

OpFill(t, buf) ==
    /\ Encoding
    /\ Encode(Canvas_fill(t, buf),
              [op |-> "fill", t |-> t, len |-> Len(buf), before |-> Len(enc)])

OpTransfer(t, buf, w, h, tw, th) ==
    /\ Encoding
    /\ Encode(Canvas_transfer(t, buf, w, h, tw, th),
              [op |-> "transfer", t |-> t, len |-> Len(buf), w |-> w, h |-> h,
               tw |-> tw, th |-> th, before |-> Len(enc)])

OpBlit(t, src, dst) ==
    /\ Encoding
    /\ Encode(Canvas_blit(t, src, dst),
              [op |-> "blit", t |-> t, src |-> src, dst |-> dst,
               before |-> Len(enc)])

PrepareSubmit ==
    /\ Running /\ pc = "encoding"
    /\ queue' = Device_submit(ByPrepare, <<enc>>)
    /\ pc' = "idle"
    /\ enc' = <<>>
    /\ nops' = 0
    /\ call' = NoCall
    /\ commands' = <<>>
    /\ UNCHANGED <<textures, fatal, layouts, groups, backend, buffers, frames,
                   ncalls, issued, calls, gpu, reads, chains>>

CanvasNext ==
    \/ \E w \in DimIn, h \in DimIn : CreateTexture(w, h)
    \/ \E w \in DimIn, h \in DimIn : CreateFramebuffer(w, h)
    \/ PrepareBegin
    \/ \E t \in 1..Len(textures), color \in ColorIn : OpClear(t, color)
    \/ \E t \in 1..Len(textures), n \in LenIn : OpFill(t, Bytes(n))
    \/ \E t \in 1..Len(textures), w \in DimIn, h \in DimIn,
          tw \in DimIn, th \in DimIn :
          \E n \in LenNear(w, h) : OpTransfer(t, Bytes(n), w, h, tw, th)
    \/ \E t \in 1..Len(textures), src \in RectIn, dst \in RectIn :
          OpBlit(t, src, dst)
    \/ PrepareSubmit

SpecCanvas == Init /\ [][CanvasNext]_vars

---------------------------------------------------------------------------
(* Properties of the canvas operations *)

\* The last operation recorded exactly one command into the encoder.
Recorded == fatal = "none" /\ Len(enc) = call.before + 1

\* The last operation ended the program and recorded nothing.
Rejected == fatal # "none" /\ Len(enc) = call.before

LastCmd == enc[Len(enc)]

TexBytes(tex) == 4 * tex.w * tex.h

\* C1: every clear of a Texture or Framebuffer builds 4*w*h bytes, passes
\* fill's length check and records one full-texture upload; it never ends
\* the program.
C1_ClearAlwaysUploads ==
    call.op = "clear" =>
        /\ Recorded
        /\ LastCmd.type = "CopyBufferToTexture"
        /\ Len(LastCmd.buffer) = TexBytes(textures[call.t])
        /\ LastCmd.extent = textures[call.t].extent

\* C2: fill records an upload if and only if the buffer has exactly 4*w*h
\* bytes; any other length ends the program and records no copy.
C2_FillIffExactLength ==
    call.op = "fill" =>
        /\ Recorded <=> call.len = TexBytes(textures[call.t])
        /\ call.len # TexBytes(textures[call.t]) => Rejected
        /\ Recorded =>
              /\ LastCmd.type = "CopyBufferToTexture"
              /\ LastCmd.texture = call.t
              /\ Len(LastCmd.buffer) = call.len

C2_Witness ==
    /\ call.op = "fill"
    /\ Recorded
    /\ call.len = TexBytes(textures[call.t])
    /\ call.len > 4

\* C3: transfer records an upload only when the source buffer has exactly
\* 4*src_w*src_h bytes; every other length ends the program.
C3_TransferExactLength ==
    call.op = "transfer" =>
        /\ Recorded => call.len = 4 * call.w * call.h
        /\ call.len # 4 * call.w * call.h => Rejected

\* C4: every transfer that records a copy has a copy extent that fits the
\* texture in both dimensions.
C4_TransferWithinBounds ==
    (call.op = "transfer" /\ Recorded) =>
        /\ LastCmd.extent.width <= textures[call.t].w
        /\ LastCmd.extent.height <= textures[call.t].h

\* C6 (as stated): blit records a copy iff the rectangles have identical
\* width and height, and the copy's extent is exactly the source size.
C6_BlitExactExtent ==
    call.op = "blit" =>
        /\ Recorded <=> /\ Rect_width(call.src) = Rect_width(call.dst)
                        /\ Rect_height(call.src) = Rect_height(call.dst)
        /\ ~Recorded => Rejected
        /\ Recorded =>
              /\ LastCmd.type = "CopyTextureToTexture"
              /\ 2 * LastCmd.extent.width = Rect_width(call.src)
              /\ 2 * LastCmd.extent.height = Rect_height(call.src)

\* C6 (amended): blit records a copy iff the rectangles have identical width
\* and height, otherwise it ends the program and records nothing; the copy's
\* extent is the source width x height truncated to whole texels, which is
\* the source size itself whenever that size is integral.
C6_BlitTruncatedExtent ==
    call.op = "blit" =>
        /\ Recorded <=> /\ Rect_width(call.src) = Rect_width(call.dst)
                        /\ Rect_height(call.src) = Rect_height(call.dst)
        /\ ~Recorded => Rejected
        /\ Recorded =>
              /\ LastCmd.type = "CopyTextureToTexture"
              /\ 2 * LastCmd.extent.width <= Rect_width(call.src)
              /\ Rect_width(call.src) < 2 * (LastCmd.extent.width + 1)
              /\ 2 * LastCmd.extent.height <= Rect_height(call.src)
              /\ Rect_height(call.src) < 2 * (LastCmd.extent.height + 1)

C6_Witness ==
    /\ call.op = "blit"
    /\ Recorded
    /\ call.src # call.dst
    /\ Rect_width(call.src) % 2 = 1

---------------------------------------------------------------------------
(* Binding model: Device::create_binding_group_layout and                  *)
(* Device::create_binding_group.                                           *)

\* The slot lists (&[Binding]) and resource lists (&[&dyn Bind]) of the runs
\* are the prefixes of these two lists.
SlotList ==
    <<[binding |-> "UniformBuffer", stage |-> "Vertex"],
      [binding |-> "SampledTexture", stage |-> "Fragment"],
      [binding |-> "Sampler", stage |-> "Fragment"],
      [binding |-> "UniformBufferDynamic", stage |-> "Vertex"]>>

BindList ==
    <<[kind |-> "UniformBuffer", size |-> 16], [kind |-> "TextureView", size |-> 0],
      [kind |-> "Sampler", size |-> 0], [kind |-> "UniformBuffer", size |-> 64],
      [kind |-> "TextureView", size |-> 0]>>

SlotsIn == {SubSeq(SlotList, 1, k) : k \in 0..MaxSlots}

BindsIn == {SubSeq(BindList, 1, k) : k \in 0..(MaxSlots + 1)}

\* Bind::binding(index): binding numbers are zero-based positions.
Bind_binding(res, index) ==
    IF res.kind = "UniformBuffer"
    THEN [binding |-> index, resource |-> "Buffer", range |-> <<0, res.size>>]
    ELSE [binding |-> index, resource |-> res.kind, range |-> <<0, 0>>]

BindingGroupLayout_new(set_index, layout, size) ==
    [wgpu |-> layout, size |-> size, set_index |-> set_index]

Device_create_binding_group_layout(index, slots) ==
    LET bindings == [i \in 1..Len(slots) |->
                        [binding |-> i - 1, visibility |-> slots[i].stage,
                         ty |-> slots[i].binding]]
    IN  BindingGroupLayout_new(index, bindings, Len(bindings))

BindingGroup_new(set_index, wgpu) == [wgpu |-> wgpu, set_index |-> set_index]

\* assert_eq!(binds.len(), layout.size)
BindCountOk_lax(layout, binds) == Len(binds) <= layout.size

BindCountOk(layout, binds) == Len(binds) = layout.size

\* The group returned by create_binding_group when its assertion holds.
Device_create_binding_group(layout, binds) ==
    LET bindings == [i \in 1..Len(binds) |-> Bind_binding(binds[i], i - 1)]
    IN  BindingGroup_new(layout.set_index,
                         [layout |-> layout.wgpu, bindings |-> bindings])

CreateBindingGroupLayout(index, slots) ==
    /\ Running
    /\ Called
    /\ layouts' = Append(layouts, Device_create_binding_group_layout(index, slots))
    /\ call' = [op |-> "create_binding_group_layout", slots |-> Len(slots)]
    /\ UNCHANGED <<textures, pc, enc, nops, queue, fatal, groups, backend,
                   buffers, frames, issued,
                   commands, calls, gpu, reads, chains>>

CreateBindingGroup(l, binds) ==
    /\ Running
    /\ Called
    /\ call' = [op |-> "create_binding_group", layout |-> l, n |-> Len(binds),
                groups |-> Len(groups), backend |-> backend]
    /\ IF BindCountOk(layouts[l], binds)
       THEN /\ groups' = Append(groups,
                                Device_create_binding_group(layouts[l], binds))
            /\ backend' = backend + 1
            /\ UNCHANGED fatal
       ELSE /\ fatal' = "layout slot count does not match bindings"
            /\ UNCHANGED <<groups, backend>>
    /\ UNCHANGED <<textures, pc, enc, nops, queue, layouts, buffers, frames,
                   issued,
                   commands, calls, gpu, reads, chains>>

BindNext ==
    \/ \E index \in 0..1, slots \in SlotsIn :
          CreateBindingGroupLayout(index, slots)
    \/ \E l \in 1..Len(layouts), binds \in BindsIn :
          CreateBindingGroup(l, binds)

SpecBind == Init /\ [][BindNext]_vars

\* The last create_binding_group call returned a group / ended the program.
GroupCreated ==
    /\ fatal = "none"
    /\ Len(groups) = call.groups + 1
    /\ backend = call.backend + 1

GroupRejected ==
    /\ fatal # "none"
    /\ Len(groups) = call.groups
    /\ backend = call.backend

\* The number of slots layout l was declared with.
DeclaredSlots(l) == Len(layouts[l].wgpu)

\* C5: create_binding_group returns a BindingGroup if and only if the number
\* of resources equals the number of slots the layout was declared with; for
\* any other count it ends the program before a backend bind group is created.
C5_GroupIffSlotCount ==
    call.op = "create_binding_group" =>
        /\ GroupCreated <=> call.n = DeclaredSlots(call.layout)
        /\ call.n # DeclaredSlots(call.layout) => GroupRejected
        /\ GroupCreated =>
              Len(groups[Len(groups)].wgpu.bindings) = DeclaredSlots(call.layout)

C5_Witness ==
    /\ call.op = "create_binding_group"
    /\ GroupCreated
    /\ call.n = 2
    /\ Len(groups) = 2

---------------------------------------------------------------------------
(* Buffers: Device::create_buffer, create_index, create_uniform_buffer.    *)
(* A slice is given by its element size (size_of::<T>()) and its length.   *)

Device_create_buffer(len) == [kind |-> "VertexBuffer", size |-> len, count |-> 0]

Device_create_index(len) == [kind |-> "IndexBuffer", size |-> 0, count |-> len]

Device_create_uniform_buffer(elemSize, len) ==
    [kind |-> "UniformBuffer", size |-> elemSize, count |-> len]

---------------------------------------------------------------------------
(* Commands recorded through wgpu::CommandEncoder and wgpu::RenderPass.    *)

BeginRenderPass(view, op) ==
    [type |-> "BeginRenderPass", attachment |-> view,
     load_op |-> op.load, store_op |-> "Store",
     clear_color |-> IF op.load = "Clear" THEN op.color ELSE TRANSPARENT]

EndRenderPass == [type |-> "EndRenderPass"]

SetPipeline(pipeline) == [type |-> "SetPipeline", pipeline |-> pipeline]

SetBindGroup(index, group, offsets) ==
    [type |-> "SetBindGroup", index |-> index, group |-> group,
     offsets |-> offsets]

SetIndexBuffer(buf, offset) ==
    [type |-> "SetIndexBuffer", buffer |-> buf, offset |-> offset]

SetVertexBuffers(slot, buf, offset) ==
    [type |-> "SetVertexBuffers", start_slot |-> slot, buffer |-> buf,
     offset |-> offset]

Draw(vertices, instances) ==
    [type |-> "Draw", vertices |-> vertices, instances |-> instances]

DrawIndexed(indices, base_vertex, instances) ==
    [type |-> "DrawIndexed", indices |-> indices, base_vertex |-> base_vertex,
     instances |-> instances]

CopyBufferToBuffer(src, src_offset, dst, dst_offset, size) ==
    [type |-> "CopyBufferToBuffer", src |-> src, src_offset |-> src_offset,
     dst |-> dst, dst_offset |-> dst_offset, size |-> size]

PassCmdTypes ==
    {"SetPipeline", "SetBindGroup", "SetIndexBuffer", "SetVertexBuffers",
     "Draw", "DrawIndexed"}

---------------------------------------------------------------------------
(* Frame and Pass.  A Frame owns its encoder; a Pass<'a> holds the         *)
(* exclusive borrow &'a mut of that encoder from Pass::begin until it is   *)
(* dropped, and dropping it ends the render pass.  Renderer::submit takes  *)
(* the Frame by value.  Each operation maps the encoder's command list to  *)
(* the list after the call.                                                *)

PassClear(color) == [load |-> "Clear", color |-> color]

PassLoad == [load |-> "Load", color |-> TRANSPARENT]

Frame_new(encoder) == [state |-> "Open", encoder |-> encoder, pass |-> FALSE]

\* The frame's encoder is mutably borrowed by a live Pass.
EncoderBorrowed_never(fr) == FALSE

EncoderBorrowed(fr) == fr.pass

\* The Pass opened on the frame has not been dropped.
PassAlive_always(fr) == TRUE

PassAlive(fr) == fr.pass

TextureView_Framebuffer(t) == [texture |-> t, format |-> textures[t].format]

Pass_begin(encoder, view, op) == Append(encoder, BeginRenderPass(view, op))

Frame_pass(encoder, op, view) == Pass_begin(encoder, view, op)

\* The source of a buffer copy: buffer `id` of `buffers`, or (id 0) a staging
\* buffer made for the copy.
BufferRef(id, buf) == [id |-> id, size |-> buf.size, count |-> buf.count]

Frame_copy_first(encoder, src, dst) ==
    <<CopyBufferToBuffer(BufferRef(src, buffers[src]), 0, dst, 0,
                         buffers[src].size * buffers[src].count)>> \o encoder

Frame_copy(encoder, src, dst) ==
    Append(encoder,
           CopyBufferToBuffer(BufferRef(src, buffers[src]), 0, dst, 0,
                              buffers[src].size * buffers[src].count))

Pipeline_apply(encoder, pipeline) == Append(encoder, SetPipeline(pipeline))

Pass_set_pipeline(encoder, pipeline) == Pipeline_apply(encoder, pipeline)

Pass_set_binding(encoder, g, offsets) ==
    Append(encoder, SetBindGroup(groups[g].set_index, g, offsets))

Pass_set_index_buffer(encoder, b) == Append(encoder, SetIndexBuffer(b, 0))

Pass_set_vertex_buffer(encoder, b) == Append(encoder, SetVertexBuffers(0, b, 0))

Pass_draw_buffer_short(encoder, b) ==
    Append(Pass_set_vertex_buffer(encoder, b),
           Draw(<<0, buffers[b].size - 1>>, <<0, 1>>))

Pass_draw_buffer(encoder, b) ==
    Append(Pass_set_vertex_buffer(encoder, b),
           Draw(<<0, buffers[b].size>>, <<0, 1>>))

Pass_draw_buffer_range(encoder, b, range) ==
    Append(Pass_set_vertex_buffer(encoder, b), Draw(range, <<0, 1>>))

Pass_draw_indexed(encoder, indices, instances) ==
    Append(encoder, DrawIndexed(indices, 0, instances))

\* impl Draw for VertexBuffer
VertexBuffer_draw(encoder, b, binding) ==
    Pass_draw_buffer(Pass_set_binding(encoder, binding, <<>>), b)

Pass_draw(encoder, drawable, binding) == VertexBuffer_draw(encoder, drawable, binding)

\* Dropping the Pass drops its wgpu::RenderPass, which ends the pass.
Pass_drop(encoder) == Append(encoder, EndRenderPass)

\* Device::update_uniform_buffer: a staging buffer of the slice, copied to buf.
StagingBuffer(elemSize, len) ==
    [kind |-> "Staging", size |-> elemSize, count |-> len]

Device_update_uniform_buffer(encoder, elemSize, len, buf) ==
    Append(encoder,
           CopyBufferToBuffer(BufferRef(0, StagingBuffer(elemSize, len)), 0,
                              buf, 0, elemSize * len))

\* AbstractPipeline::prepare returns None or Some((buf, unifs)).
PrepareNone == [some |-> FALSE, buf |-> 0, elemSize |-> 0, len |-> 0]

PrepareSome(buf, elemSize, len) ==
    [some |-> TRUE, buf |-> buf, elemSize |-> elemSize, len |-> len]

Renderer_update_pipeline_always(encoder, prep) ==
    Device_update_uniform_buffer(encoder, prep.elemSize, prep.len, prep.buf)

Renderer_update_pipeline(encoder, prep) ==
    IF prep.some
    THEN Device_update_uniform_buffer(encoder, prep.elemSize, prep.len, prep.buf)
    ELSE encoder

\* frame.encoder.finish(): the command buffer holds the recorded commands.
Finish(encoder) == encoder

\* Renderer::submit(frame: Frame) moves the frame and its encoder.
Consume_not(fr) == fr

Consume(fr) == [fr EXCEPT !.state = "Submitted", !.encoder = <<>>]

---------------------------------------------------------------------------
(* The render loop.  It starts after the caller has created its long-lived *)
(* resources: a framebuffer, a binding group over a one-slot layout,       *)
(* vertex buffers of 3 and of 6 vertices, an index buffer and two uniform  *)
(* buffers.                                                                *)

FrameLayout ==
    Device_create_binding_group_layout(0, <<[binding |-> "UniformBuffer",
                                             stage |-> "Vertex"]>>)

FrameBuffers ==
    <<Device_create_buffer(3), Device_create_index(3),
      Device_create_uniform_buffer(16, 1), Device_create_uniform_buffer(16, 2),
      Device_create_buffer(6)>>

FrameInit ==
    /\ textures = <<Device_create_framebuffer(1, 1)>>
    /\ pc = "idle"
    /\ enc = <<>>
    /\ nops = 0
    /\ queue = <<>>
    /\ fatal = "none"
    /\ call = NoCall
    /\ layouts = <<FrameLayout>>
    /\ groups = <<Device_create_binding_group(
                     FrameLayout, <<[kind |-> "UniformBuffer", size |-> 16]>>)>>
    /\ backend = 1
    /\ buffers = FrameBuffers
    /\ frames = <<>>
    /\ ncalls = 0
    /\ issued = <<>>
    /\ commands = <<>>
    /\ calls = <<>>
    /\ gpu = NoGpuWork
    /\ reads = <<>>
    /\ chains = <<>>

BuffersOf(kind) == {b \in 1..Len(buffers) : buffers[b].kind = kind}

RenderTargets == {t \in 1..Len(textures) : textures[t].kind = "Framebuffer"}

PassOpIn == {PassClear(RED), PassLoad}

\* Ranges start..end handed to draw_buffer_range: inside the smaller vertex
\* buffer, past its end, and with start > end.
RangeIn == {<<0, 1>>, <<1, 3>>, <<2, 5>>, <<3, 1>>}

PrepareIn ==
    {PrepareNone}
        \cup {PrepareSome(b, 16, n) : b \in BuffersOf("UniformBuffer"), n \in 1..2}
        \cup {PrepareSome(b, 64, 1) : b \in BuffersOf("UniformBuffer")}

\* The effect of one call on frame f that maps its encoder to `encoder` and
\* issues the commands `cmds`.
Record(f, encoder, cmds, pass, name, arg) ==
    /\ frames' = [frames EXCEPT ![f].encoder = encoder, ![f].pass = pass]
    /\ issued' = [issued EXCEPT ![f] = @ \o cmds]
    /\ call' = [op |-> name, f |-> f, before |-> Len(frames[f].encoder),
                arg |-> arg]
    /\ UNCHANGED <<textures, pc, enc, nops, queue, fatal, layouts, groups,
                   backend, buffers,
                   commands, calls, gpu, reads, chains>>

\* Renderer::frame
NewFrame ==
    /\ Running
    /\ Called
    /\ frames' = Append(frames, Frame_new(<<>>))
    /\ issued' = Append(issued, <<>>)
    /\ call' = [op |-> "frame", f |-> Len(frames) + 1, before |-> 0]
    /\ UNCHANGED <<textures, pc, enc, nops, queue, fatal, layouts, groups,
                   backend, buffers,
                   commands, calls, gpu, reads, chains>>

\* Methods of Frame need the frame and, exclusively, its encoder.
FrameUsable(f) ==
    /\ Running
    /\ frames[f].state = "Open"
    /\ ~EncoderBorrowed(frames[f])

\* Methods of Pass need the live Pass.
PassUsable(f) == Running /\ PassAlive(frames[f])

FramePass(f, op, t) ==
    /\ FrameUsable(f) /\ Called
    /\ Record(f, Frame_pass(frames[f].encoder, op, TextureView_Framebuffer(t)),
              <<BeginRenderPass(TextureView_Framebuffer(t), op)>>, TRUE, "pass",
              t)

FrameCopy(f, src, dst) ==
    /\ FrameUsable(f) /\ Called
    /\ Record(f, Frame_copy(frames[f].encoder, src, dst),
              <<CopyBufferToBuffer(BufferRef(src, buffers[src]), 0, dst, 0,
                                   buffers[src].size * buffers[src].count)>>,
              FALSE, "copy",
              [src |-> src, dst |-> dst])

UpdatePipeline(f, prep) ==
    /\ FrameUsable(f) /\ Called
    /\ Record(f, Renderer_update_pipeline(frames[f].encoder, prep),
              IF prep.some
              THEN <<CopyBufferToBuffer(
                        BufferRef(0, StagingBuffer(prep.elemSize, prep.len)), 0,
                        prep.buf, 0, prep.elemSize * prep.len)>>
              ELSE <<>>,
              FALSE, IF prep.some THEN "update_pipeline" ELSE "update_pipeline_none",
              prep)

PassSetPipeline(f) ==
    /\ PassUsable(f) /\ Called
    /\ Record(f, Pass_set_pipeline(frames[f].encoder, 1), <<SetPipeline(1)>>,
              TRUE, "set_pipeline",
              1)

PassSetBinding(f, g) ==
    /\ PassUsable(f) /\ Called
    /\ Record(f, Pass_set_binding(frames[f].encoder, g, <<>>),
              <<SetBindGroup(groups[g].set_index, g, <<>>)>>, TRUE, "set_binding",
              g)

PassSetIndexBuffer(f, b) ==
    /\ PassUsable(f) /\ Called
    /\ Record(f, Pass_set_index_buffer(frames[f].encoder, b),
              <<SetIndexBuffer(b, 0)>>, TRUE, "set_index_buffer",
              b)

PassSetVertexBuffer(f, b) ==
    /\ PassUsable(f) /\ Called
    /\ Record(f, Pass_set_vertex_buffer(frames[f].encoder, b),
              <<SetVertexBuffers(0, b, 0)>>, TRUE, "set_vertex_buffer",
              b)

PassDraw(f, b, g) ==
    /\ PassUsable(f) /\ Called
    /\ Record(f, Pass_draw(frames[f].encoder, b, g),
              <<SetBindGroup(groups[g].set_index, g, <<>>),
                SetVertexBuffers(0, b, 0),
                Draw(<<0, buffers[b].size>>, <<0, 1>>)>>, TRUE, "draw",
              [buf |-> b, group |-> g])

PassDrawBuffer(f, b) ==
    /\ PassUsable(f) /\ Called
    /\ Record(f, Pass_draw_buffer(frames[f].encoder, b),
              <<SetVertexBuffers(0, b, 0),
                Draw(<<0, buffers[b].size>>, <<0, 1>>)>>, TRUE, "draw_buffer",
              [buf |-> b])

PassDrawBufferRange(f, b, range) ==
    /\ PassUsable(f) /\ Called
    /\ Record(f, Pass_draw_buffer_range(frames[f].encoder, b, range),
              <<SetVertexBuffers(0, b, 0), Draw(range, <<0, 1>>)>>, TRUE,
              "draw_buffer_range",
              [buf |-> b, range |-> range])

PassDrawIndexed(f, indices, instances) ==
    /\ PassUsable(f) /\ Called
    /\ Record(f, Pass_draw_indexed(frames[f].encoder, indices, instances),
              <<DrawIndexed(indices, 0, instances)>>, TRUE, "draw_indexed",
              [indices |-> indices, instances |-> instances])

\* The Pass goes out of scope.
PassDrop(f) ==
    /\ PassUsable(f)
    /\ UNCHANGED ncalls
    /\ Record(f, Pass_drop(frames[f].encoder), <<EndRenderPass>>, FALSE, "drop",
              0)

\* Renderer::submit(frame)
Submit(f) ==
    /\ FrameUsable(f)
    /\ Len(queue) < MaxCalls
    /\ queue' = Device_submit(BySubmit(f), <<Finish(frames[f].encoder)>>)
    /\ frames' = [frames EXCEPT ![f] = Consume(@)]
    /\ call' = [op |-> "submit", f |-> f, before |-> Len(frames[f].encoder)]
    /\ calls' = Append(calls, CallOf(BySubmit(f), f))
    /\ UNCHANGED <<textures, pc, enc, nops, fatal, layouts, groups, backend,
                   buffers, ncalls, issued, commands, gpu, reads, chains>>

FrameNext ==
    \/ NewFrame
    \/ \E f \in 1..Len(frames), op \in PassOpIn, t \in RenderTargets :
          FramePass(f, op, t)
    \/ \E f \in 1..Len(frames), src, dst \in BuffersOf("UniformBuffer") :
          FrameCopy(f, src, dst)
    \/ \E f \in 1..Len(frames), prep \in PrepareIn : UpdatePipeline(f, prep)
    \/ \E f \in 1..Len(frames) : PassSetPipeline(f)
    \/ \E f \in 1..Len(frames), g \in 1..Len(groups) : PassSetBinding(f, g)
    \/ \E f \in 1..Len(frames), b \in BuffersOf("IndexBuffer") :
          PassSetIndexBuffer(f, b)
    \/ \E f \in 1..Len(frames), b \in BuffersOf("VertexBuffer") :
          PassSetVertexBuffer(f, b)
    \/ \E f \in 1..Len(frames), b \in BuffersOf("VertexBuffer"),
          g \in 1..Len(groups) : PassDraw(f, b, g)
    \/ \E f \in 1..Len(frames), b \in BuffersOf("VertexBuffer") :
          PassDrawBuffer(f, b)
    \/ \E f \in 1..Len(frames), b \in BuffersOf("VertexBuffer"),
          range \in RangeIn : PassDrawBufferRange(f, b, range)
    \/ \E f \in 1..Len(frames) : PassDrawIndexed(f, <<0, 3>>, <<0, 1>>)
    \/ \E f \in 1..Len(frames) : PassDrop(f)
    \/ \E f \in 1..Len(frames) : Submit(f)

SpecFrame == FrameInit /\ [][FrameNext]_vars

---------------------------------------------------------------------------
(* Properties of Frame / Pass / submit *)

Frames == 1..Len(frames)

\* The batches of the queue that Renderer::submit handed over for frame f.
SubmittedBatches(f) == {i \in 1..Len(queue) : queue[i].by = BySubmit(f)}

FrameBatches == {i \in 1..Len(queue) : queue[i].by.call = "submit"}

HasType(cmds, type) == \E i \in 1..Len(cmds) : cmds[i].type = type

\* Render passes begun and not ended in a command list.
RECURSIVE OpenPasses(_)
OpenPasses(cmds) ==
    IF cmds = <<>> THEN 0
    ELSE LET c == cmds[Len(cmds)]
             rest == OpenPasses(SubSeq(cmds, 1, Len(cmds) - 1))
         IN  IF c.type = "BeginRenderPass" THEN rest + 1
             ELSE IF c.type = "EndRenderPass" THEN rest - 1
             ELSE rest

\* From position i on, at pass depth `depth`: a pass begins only outside a
\* pass, pass commands and the end of a pass occur only inside one, and buffer
\* copies occur only outside.
RECURSIVE ScopedFrom(_, _, _)
ScopedFrom(cmds, i, depth) ==
    IF i > Len(cmds) THEN TRUE
    ELSE IF cmds[i].type = "BeginRenderPass"
         THEN depth = 0 /\ ScopedFrom(cmds, i + 1, 1)
    ELSE IF cmds[i].type = "EndRenderPass"
         THEN depth = 1 /\ ScopedFrom(cmds, i + 1, 0)
    ELSE IF cmds[i].type \in PassCmdTypes
         THEN depth = 1 /\ ScopedFrom(cmds, i + 1, depth)
    ELSE depth = 0 /\ ScopedFrom(cmds, i + 1, depth)

Scoped(cmds) == ScopedFrom(cmds, 1, 0)

\* C7, state part: the queue holds exactly one batch of every Submitted frame
\* and none of an Open frame.
C7_OneBatchPerFrame ==
    \A f \in Frames :
        Cardinality(SubmittedBatches(f)) =
            IF frames[f].state = "Submitted" THEN 1 ELSE 0

\* C7, step part: a batch of frame f is enqueued only by the step that takes
\* f from Open to Submitted, and a Submitted frame never changes again: no
\* pass, copy or uniform update is recorded into it and it is not resubmitted.
C7_SubmittedIsTerminal ==
    \A f \in Frames :
        /\ SubmittedBatches(f)' # SubmittedBatches(f) =>
              frames[f].state = "Open" /\ frames'[f].state = "Submitted"
        /\ frames[f].state = "Submitted" =>
              /\ frames'[f] = frames[f]
              /\ issued'[f] = issued[f]

\* C7: a Frame is submitted at most once; Submitted is terminal.
C7_SubmittedAtMostOnce == []C7_OneBatchPerFrame /\ [][C7_SubmittedIsTerminal]_vars

C7_Witness ==
    \E f \in Frames :
        /\ frames[f].state = "Submitted"
        /\ issued[f] # <<>>
        /\ call.op # "submit"

\* C8: a Frame is submitted only when every Pass opened on it is closed: no
\* submitted frame has a live Pass, and every render pass begun in a
\* submitted command buffer is ended in it.
C8_SubmitOnlyWithPassesClosed ==
    /\ \A f \in Frames : frames[f].state = "Submitted" => ~frames[f].pass
    /\ \A i \in FrameBatches :
          \A b \in 1..Len(queue[i].buffers) : OpenPasses(queue[i].buffers[b]) = 0

C8_Witness ==
    \E i \in FrameBatches :
        /\ HasType(queue[i].buffers[1], "BeginRenderPass")
        /\ HasType(queue[i].buffers[1], "Draw")

\* C9: a Frame has at most one open Pass; while it is open nothing but that
\* Pass records into the frame (no second pass, no Frame::copy, no uniform
\* update), and bind / set-buffer / draw commands are recorded only through
\* an open Pass.
C9_PassesExclusive ==
    \A f \in Frames :
        /\ Scoped(frames[f].encoder)
        /\ OpenPasses(frames[f].encoder) \in {0, 1}
        /\ frames[f].pass <=> OpenPasses(frames[f].encoder) = 1
        /\ frames[f].pass => frames[f].state = "Open"

C9_Witness ==
    \E f \in Frames :
        /\ frames[f].pass
        /\ \E i, j \in 1..Len(frames[f].encoder) :
              /\ i < j
              /\ frames[f].encoder[i].type = "EndRenderPass"
              /\ frames[f].encoder[j].type = "BeginRenderPass"

\* C10: the command buffer handed to the queue when a Frame is submitted is
\* exactly the sequence of commands issued on that Frame, in issue order.
C10_SubmittedInRecordingOrder ==
    /\ \A i \in FrameBatches : queue[i].buffers = <<issued[queue[i].by.frame]>>
    /\ \A f \in Frames : frames[f].state = "Open" => frames[f].encoder = issued[f]

C10_Witness ==
    \E i \in FrameBatches :
        LET cmds == queue[i].buffers[1]
        IN  /\ Len(cmds) >= 3
            /\ cmds[Len(cmds)].type = "CopyBufferToBuffer"
            /\ HasType(cmds, "EndRenderPass")

---------------------------------------------------------------------------
(* Renderer::prepare(commands) on a given Op list: the loop takes the Ops  *)
(* of the list front to back, Op::encode dispatches on the variant, and    *)
(* the call submits once the iterator is exhausted.                        *)

Op_Clear(f, color) == [op |-> "Clear", f |-> f, color |-> color]

Op_Fill(f, buf) == [op |-> "Fill", f |-> f, buf |-> buf]

Op_Transfer(f, buf, w, h, tw, th) ==
    [op |-> "Transfer", f |-> f, buf |-> buf, w |-> w, h |-> h, tw |-> tw,
     th |-> th]

Op_Blit(f, src, dst) == [op |-> "Blit", f |-> f, src |-> src, dst |-> dst]

\* Op::encode: match *self
Op_encode(c) ==
    CASE c.op = "Clear" -> OpClear(c.f, c.color)
      [] c.op = "Fill" -> OpFill(c.f, c.buf)
      [] c.op = "Transfer" -> OpTransfer(c.f, c.buf, c.w, c.h, c.tw, c.th)
      [] c.op = "Blit" -> OpBlit(c.f, c.src, c.dst)

\* for c in commands.iter(): the Op the loop takes after n iterations.
NextOp_back(cmds, n) == cmds[Len(cmds) - n]

NextOp(cmds, n) == cmds[n + 1]

\* The Ops of the lists, over the canvases created so far.
OpIn ==
    UNION {{Op_Clear(t, RED), Op_Clear(t, Rgba(1, 2, 0, 2)),
            Op_Fill(t, Bytes(4 * textures[t].w * textures[t].h)),
            Op_Fill(t, Bytes(3)), Op_Transfer(t, Bytes(4), 1, 1, 1, 1),
            Op_Blit(t, Rect(0, 0, 2, 2), Rect(2, 2, 4, 4))} :
           t \in 1..Len(textures)}

\* Lists of at most n Ops.
OpListsIn(n) == UNION {[1..k -> OpIn] : k \in 0..n}

\* Ops that break what fill, transfer and blit require: a transfer buffer
\* one byte or one texel too long, a transfer region of more texels than
\* the texture, one higher than the texture, and a blit between rectangles
\* of different width.
OpFailIn ==
    UNION {{Op_Transfer(t, Bytes(5), 1, 1, 1, 1),
            Op_Transfer(t, Bytes(8), 1, 1, 1, 1),
            Op_Transfer(t, Bytes(4), 1, 1, 3, 1),
            Op_Transfer(t, Bytes(4), 1, 1, 1, 2),
            Op_Blit(t, Rect(0, 0, 2, 2), Rect(0, 0, 4, 2))} :
           t \in 1..Len(textures)}

OpListsOver(S, n) == UNION {[1..k -> S] : k \in 0..n}

Prepare(ops) ==
    /\ Running /\ pc = "idle"
    /\ ncalls + Len(ops) < MaxCalls
    /\ ncalls' = ncalls + 1
    /\ pc' = "encoding"
    /\ enc' = <<>>
    /\ nops' = 0
    /\ commands' = ops
    /\ calls' = Append(calls, CallOf(ByPrepare, ops))
    /\ UNCHANGED <<textures, queue, fatal, call, layouts, groups, backend,
                   buffers, frames, issued, gpu, reads, chains>>

PrepareEncode ==
    /\ pc = "encoding"
    /\ nops < Len(commands)
    /\ Op_encode(NextOp(commands, nops))

PrepareReturn ==
    /\ nops = Len(commands)
    /\ PrepareSubmit

\* The canvases exist before the Op lists are built.
PrepareInit ==
    /\ textures = <<Device_create_framebuffer(1, 1), Device_create_texture(2, 1)>>
    /\ pc = "idle"
    /\ enc = <<>>
    /\ nops = 0
    /\ queue = <<>>
    /\ fatal = "none"
    /\ call = NoCall
    /\ layouts = <<>>
    /\ groups = <<>>
    /\ backend = 0
    /\ buffers = <<>>
    /\ frames = <<>>
    /\ ncalls = 0
    /\ issued = <<>>
    /\ commands = <<>>
    /\ calls = <<>>
    /\ gpu = NoGpuWork
    /\ reads = <<>>
    /\ chains = <<>>

PrepareNext ==
    \/ \E ops \in OpListsOver(OpIn \cup OpFailIn, MaxCalls - 1) : Prepare(ops)
    \/ PrepareEncode
    \/ PrepareReturn

SpecPrepare == PrepareInit /\ [][PrepareNext]_vars

---------------------------------------------------------------------------
(* Properties of Renderer::prepare *)

\* What one Op records on its own.
CmdsOf(c) ==
    CASE c.op = "Clear" -> Canvas_clear(c.f, c.color)
      [] c.op = "Fill" -> Canvas_fill(c.f, c.buf)
      [] c.op = "Transfer" -> Canvas_transfer(c.f, c.buf, c.w, c.h, c.tw, c.th)
      [] c.op = "Blit" -> Canvas_blit(c.f, c.src, c.dst)

\* The commands of the first n Ops of a list, in list order.
RECURSIVE CmdsOfFirst(_, _)
CmdsOfFirst(ops, n) ==
    IF n = 0 THEN <<>>
    ELSE CmdsOfFirst(ops, n - 1) \o CmdsOf(ops[n]).cmds

\* The prepare call that is running, or ended the program, if any.
PrepareOpen == IF pc = "encoding" THEN 1 ELSE 0

\* C11: prepare encodes the Ops front to back into the one encoder of the
\* call: while it runs, the encoder holds the commands of the Ops encoded so
\* far in list order and the call has submitted nothing; each prepare call
\* that returned has put exactly one batch of exactly one command buffer on
\* the queue, holding the commands of its whole list in list order.
C11_PrepareEncodesInOrderSubmitsOnce ==
    /\ Len(queue) = Len(calls) - PrepareOpen
    /\ pc = "encoding" =>
          /\ commands = calls[Len(calls)].arg
          /\ nops <= Len(commands)
          /\ Running => enc = CmdsOfFirst(commands, nops)
    /\ \A i \in 1..Len(queue) :
          /\ queue[i].by = ByPrepare
          /\ queue[i].buffers = <<CmdsOfFirst(calls[i].arg, Len(calls[i].arg))>>

C11_Witness ==
    /\ pc = "idle"
    /\ \E i \in 1..Len(queue) :
          /\ Len(calls[i].arg) = 2
          /\ calls[i].arg[1] # calls[i].arg[2]
          /\ Len(queue[i].buffers[1]) = 2
          /\ queue[i].buffers[1][1] # queue[i].buffers[1][2]

\* What the Ops require of their arguments: fill takes exactly 4*w*h bytes,
\* transfer takes exactly 4*width*height bytes and a region that fits the
\* texture, blit takes rectangles of equal size; clear requires nothing.
Violates(c) ==
    LET tex == textures[c.f]
    IN  CASE c.op = "Clear" -> FALSE
          [] c.op = "Fill" -> Len(c.buf) # 4 * tex.w * tex.h
          [] c.op = "Transfer" ->
                \/ Len(c.buf) # 4 * c.w * c.h
                \/ c.tw > tex.w
                \/ c.th > tex.h
          [] c.op = "Blit" ->
                \/ Rect_width(c.src) # Rect_width(c.dst)
                \/ Rect_height(c.src) # Rect_height(c.dst)

\* The run ended in prepare at the Op the loop took last: the encoder holds
\* the copies of the Ops before it, the queue only the batches of the calls
\* before this one.
EndedAtOp ==
    /\ pc = "encoding"
    /\ nops \in 1..Len(commands)
    /\ enc = CmdsOfFirst(commands, nops - 1)
    /\ Len(queue) = Len(calls) - 1

\* C25: an Op that violates its precondition ends the program when prepare
\* reaches it: no Op that violates it is ever passed by the loop, the run
\* that ended holds the earlier copies unsubmitted and has not encoded the
\* later Ops, and no batch on the queue comes from a list with such an Op.
C25_ViolationIsFatal ==
    /\ (pc = "encoding" /\ Running) =>
          \A i \in 1..nops : ~Violates(commands[i])
    /\ ~Running => EndedAtOp
    /\ \A i \in 1..Len(queue) :
          \A k \in 1..Len(calls[i].arg) : ~Violates(calls[i].arg[k])

\* The part of C25 that the assertions of fill, transfer and blit give: an
\* Op whose assertion fails ends the program at that Op with nothing
\* submitted, and only lists whose assertions all passed are on the queue.
AssertionFailureIsFatal ==
    /\ (pc = "encoding" /\ Running) =>
          \A i \in 1..nops : CmdsOf(commands[i]).panic = "none"
    /\ ~Running => EndedAtOp /\ CmdsOf(commands[nops]).panic = fatal
    /\ \A i \in 1..Len(queue) :
          \A k \in 1..Len(calls[i].arg) : CmdsOf(calls[i].arg[k]).panic = "none"

---------------------------------------------------------------------------
(* The GPU side of the queue, as far as readback depends on it: batches    *)
(* are executed in queue order, buffer <-> texture copies move bytes as    *)
(* their row pitch and extent say, and every other write to a texture      *)
(* leaves bytes this model does not determine (Unspecified).  Texture      *)
(* memory is kept row-major, 4 bytes per texel.                            *)

Unspecified(n) == [i \in 1..n |-> -1]

TexMem(mem, t) ==
    IF t \in DOMAIN mem THEN mem[t]
    ELSE Unspecified(4 * textures[t].w * textures[t].h)

SetMem(mem, t, bytes) ==
    [x \in (DOMAIN mem) \cup {t} |-> IF x = t THEN bytes ELSE mem[x]]

\* copy_buffer_to_texture: rows of `row_pitch` bytes of buf into the extent.
WriteTexels(old, w, buf, row_pitch, extent) ==
    [i \in 1..Len(old) |->
        LET y == (i - 1) \div (4 * w)
            xb == (i - 1) % (4 * w)
            src == y * row_pitch + xb + 1
        IN  IF y < extent.height /\ xb < 4 * extent.width
            THEN IF src <= Len(buf) THEN buf[src] ELSE -1
            ELSE old[i]]

\* copy_texture_to_buffer: the extent of the texture into rows of `row_pitch`
\* bytes of the buffer.
ReadTexels(old, texels, w, row_pitch, extent) ==
    [j \in 1..Len(old) |->
        LET y == (j - 1) \div row_pitch
            xb == (j - 1) % row_pitch
        IN  IF y < extent.height /\ xb < 4 * extent.width /\ xb < 4 * w
               /\ y * 4 * w + xb + 1 <= Len(texels)
            THEN texels[y * 4 * w + xb + 1]
            ELSE old[j]]

CopyTextureToBuffer(t, dst, row_pitch, image_height, extent) ==
    [type |-> "CopyTextureToBuffer", texture |-> t, origin |-> <<0, 0, 0>>,
     dst |-> dst, offset |-> 0, row_pitch |-> row_pitch,
     image_height |-> image_height, extent |-> extent]

\* The effect of one command on texture memory and on the destination
\* buffers of the read requests.
ExecCmd(st, c) ==
    CASE c.type = "CopyBufferToTexture" ->
            [st EXCEPT !.mem =
                SetMem(@, c.texture,
                       WriteTexels(TexMem(@, c.texture), textures[c.texture].w,
                                   c.buffer, c.row_pitch, c.extent))]
      [] c.type = "CopyTextureToBuffer" ->
            [st EXCEPT !.reads[c.dst].dst =
                          ReadTexels(@, TexMem(st.mem, c.texture),
                                     textures[c.texture].w, c.row_pitch, c.extent),
                       !.reads[c.dst].copied = TRUE]
      [] c.type = "CopyTextureToTexture" ->
            [st EXCEPT !.mem =
                SetMem(@, c.texture, Unspecified(Len(TexMem(@, c.texture))))]
      [] c.type = "BeginRenderPass" ->
            [st EXCEPT !.mem =
                SetMem(@, c.attachment.texture,
                       Unspecified(Len(TexMem(@, c.attachment.texture))))]
      [] OTHER -> st

RECURSIVE ExecCmds(_, _)
ExecCmds(st, cmds) ==
    IF cmds = <<>> THEN st
    ELSE ExecCmds(ExecCmd(st, Head(cmds)), Tail(cmds))

RECURSIVE ExecBuffers(_, _)
ExecBuffers(st, bufs) ==
    IF bufs = <<>> THEN st
    ELSE ExecBuffers(ExecCmds(st, Head(bufs)), Tail(bufs))

\* The GPU executes the next batch of the queue.
GpuExecute ==
    /\ Running
    /\ gpu.done < Len(queue)
    /\ LET st == ExecBuffers([mem |-> gpu.mem, reads |-> reads],
                             queue[gpu.done + 1].buffers)
       IN  /\ gpu' = [done |-> gpu.done + 1, mem |-> st.mem]
           /\ reads' = st.reads
    /\ UNCHANGED <<textures, pc, enc, nops, queue, fatal, call, layouts, groups,
                   backend, buffers, frames, ncalls, issued, commands, calls,
                   chains>>

---------------------------------------------------------------------------
(* Renderer::read(fb, f): copy the framebuffer into a fresh MAP_READ       *)
(* buffer, submit, and register the closure that map_read_async calls once *)
(* with Ok(mapping) or Err(err).  The closure owns `buffer` and `f`.       *)

Framebuffer_size(tex) == MulU32(tex.w, tex.h)

\* A read request: the destination buffer `dst` (contents unspecified until
\* the copy has run) and the state captured by the closure.  `result`,
\* `invoked` and `arg` are history: the result the closure was called with,
\* how often it called f, and the bytes it passed.
ReadRequest(t, bytesize) ==
    [fb |-> t, bytesize |-> bytesize, dst |-> Unspecified(bytesize),
     copied |-> FALSE, state |-> "pending", buffer |-> <<>>, result |-> "none",
     invoked |-> 0, arg |-> <<>>]

Read(t) ==
    /\ Running /\ pc = "idle"
    /\ Called
    /\ textures[t].kind = "Framebuffer"
    /\ LET r == Len(reads) + 1
           bytesize == 4 * Framebuffer_size(textures[t])
           encoder == <<CopyTextureToBuffer(t, r, MulU32(4, textures[t].w),
                                            textures[t].h, textures[t].extent)>>
       IN  /\ queue' = Device_submit(ByRead(r), <<Finish(encoder)>>)
           /\ reads' = Append(reads, ReadRequest(t, bytesize))
           /\ calls' = Append(calls, CallOf(ByRead(r), t))
    /\ UNCHANGED <<textures, pc, enc, nops, fatal, call, layouts, groups,
                   backend, buffers, frames, issued, commands, gpu, chains>>

\* map_read_async(0, bytesize, ..): the bytes of the mapping.
MappedRange_half(req) == SubSeq(req.dst, 1, req.bytesize \div 2)

MappedRange(req) == SubSeq(req.dst, 1, req.bytesize)

\* Ok(ref mapping) => { buffer.extend_from_slice(mapping.data);
\*                      if buffer.len() == bytesize { f(buffer) } }
OnMapOk(req, data) ==
    LET buffer == req.buffer \o data
    IN  IF Len(buffer) = req.bytesize
        THEN [req EXCEPT !.state = "done", !.buffer = buffer,
                         !.invoked = @ + 1, !.arg = buffer]
        ELSE [req EXCEPT !.state = "done", !.buffer = buffer]

\* Err(ref err) => panic!("{:?}", err)
OnMapErr_retry(req) == [panic |-> "none", req |-> req]

OnMapErr(req) ==
    [panic |-> "BufferMapAsyncError", req |-> [req EXCEPT !.state = "failed"]]

\* The mapping completes once the GPU no longer uses the buffer.
MapOk(r) ==
    /\ Running
    /\ reads[r].state = "pending" /\ reads[r].copied
    /\ reads' = [reads EXCEPT
                    ![r] = OnMapOk([@ EXCEPT !.result = "Ok"], MappedRange(@))]
    /\ UNCHANGED <<textures, pc, enc, nops, queue, fatal, call, layouts, groups,
                   backend, buffers, frames, ncalls, issued, commands, calls,
                   gpu, chains>>

MapErr(r) ==
    /\ Running
    /\ reads[r].state = "pending"
    /\ LET out == OnMapErr([reads[r] EXCEPT !.result = "Err"])
       IN  /\ reads' = [reads EXCEPT ![r] = out.req]
           /\ fatal' = out.panic
    /\ UNCHANGED <<textures, pc, enc, nops, queue, call, layouts, groups,
                   backend, buffers, frames, ncalls, issued, commands, calls,
                   gpu, chains>>

---------------------------------------------------------------------------
(* One-shot operations, frames and readback on one Renderer.  The program  *)
(* is single-threaded: a Renderer, Frame or Pass method starts only when   *)
(* no prepare call is running.  The framebuffer exists beforehand.         *)

AtCall == pc = "idle"

QueueInit ==
    /\ textures \in {<<Device_create_framebuffer(w, h)>> : w \in DimIn, h \in DimIn}
    /\ pc = "idle"
    /\ enc = <<>>
    /\ nops = 0
    /\ queue = <<>>
    /\ fatal = "none"
    /\ call = NoCall
    /\ layouts = <<>>
    /\ groups = <<>>
    /\ backend = 0
    /\ buffers = <<>>
    /\ frames = <<>>
    /\ ncalls = 0
    /\ issued = <<>>
    /\ commands = <<>>
    /\ calls = <<>>
    /\ gpu = NoGpuWork
    /\ reads = <<>>
    /\ chains = <<>>

QueueNext ==
    \/ \E ops \in OpListsIn(MaxCalls - 1) : Prepare(ops)
    \/ PrepareEncode
    \/ PrepareReturn
    \/ AtCall /\ NewFrame
    \/ \E f \in 1..Len(frames), op \in PassOpIn, t \in RenderTargets :
          AtCall /\ FramePass(f, op, t)
    \/ \E f \in 1..Len(frames) : AtCall /\ PassDrop(f)
    \/ \E f \in 1..Len(frames) : AtCall /\ Submit(f)
    \/ \E t \in 1..Len(textures) : Read(t)
    \/ GpuExecute
    \/ \E r \in 1..Len(reads) : MapOk(r)
    \/ \E r \in 1..Len(reads) : MapErr(r)

SpecQueue == QueueInit /\ [][QueueNext]_vars

---------------------------------------------------------------------------
(* Properties of the queue and of readback *)

\* C12: batches reach the queue in the order of the calls that submit them:
\* the i-th batch of the queue is the batch of the i-th submit / prepare /
\* read call, and only a prepare call that has not returned has none.
C12_BatchesInCallOrder ==
    /\ Len(queue) = Len(calls) - PrepareOpen
    /\ \A i \in 1..Len(queue) : queue[i].by = calls[i].by

C12_Witness ==
    /\ Len(queue) = 3
    /\ queue[1].by.call = "submit"
    /\ queue[2].by.call = "prepare"
    /\ queue[3].by.call = "read"

\* The position of read request r among the calls.
CallIndex(r) == CHOOSE k \in 1..Len(calls) : calls[k].by = ByRead(r)

\* Call k records a write to texture t.
WritesTo(k, t) ==
    IF calls[k].by.call = "prepare"
    THEN \E i \in 1..Len(calls[k].arg) : calls[k].arg[i].f = t
    ELSE IF calls[k].by.call = "submit"
    THEN \E i \in 1..Len(issued[calls[k].arg]) :
            /\ issued[calls[k].arg][i].type = "BeginRenderPass"
            /\ issued[calls[k].arg][i].attachment.texture = t
    ELSE FALSE

Max(S) == CHOOSE x \in S : \A y \in S : y <= x

\* The last write to t before call k was the clear of a prepare list.
ClearedBefore(k, t) ==
    LET writers == {j \in 1..(k - 1) : WritesTo(j, t)}
    IN  /\ writers # {}
        /\ calls[Max(writers)].by.call = "prepare"
        /\ LET ops == calls[Max(writers)].arg
           IN  ops[Max({i \in 1..Len(ops) : ops[i].f = t})].op = "Clear"

ClearColor(k, t) ==
    LET ops == calls[Max({j \in 1..(k - 1) : WritesTo(j, t)})].arg
    IN  ops[Max({i \in 1..Len(ops) : ops[i].f = t})].color

\* The texel (b, g, r, a) of a colour's 8-bit channels.
BgraTexel(c) == <<F32ToU8(c.b), F32ToU8(c.g), F32ToU8(c.r), F32ToU8(c.a)>>

C14_CallbackOnceWithFullRegion ==
    \A r \in 1..Len(reads) :
        LET q == reads[r]
            tex == textures[q.fb]
        IN  /\ q.invoked <= 1
            /\ q.result = "Ok" => q.invoked = 1
            /\ q.invoked = 1 =>
                  /\ q.result = "Ok" /\ q.copied
                  /\ Len(q.buffer) = 4 * tex.w * tex.h
                  /\ q.arg = q.buffer
                  /\ q.arg = q.dst

C14_Witness ==
    \E r, p \in 1..Len(reads) :
        /\ r # p
        /\ reads[r].invoked = 1 /\ Len(reads[r].arg) >= 8
        /\ reads[p].invoked = 1

\* C15: when the mapping of a read completes with an error the notification
\* ends the program: the callback of that read has not been and is never
\* invoked, and the request is not pending again.
C15_MapErrorIsFatal ==
    \A r \in 1..Len(reads) :
        reads[r].result = "Err" =>
            /\ fatal # "none"
            /\ reads[r].invoked = 0
            /\ reads[r].state = "failed"

C15_Witness ==
    \E r \in 1..Len(reads) :
        /\ reads[r].result = "Err"
        /\ reads[r].copied
        /\ \E p \in 1..Len(reads) : reads[p].invoked = 1

---------------------------------------------------------------------------
(* Properties of buffer copies and draws *)

\* The commands the last Frame / Pass call appended to its frame's encoder.
Appended ==
    SubSeq(frames[call.f].encoder, call.before + 1, Len(frames[call.f].encoder))

\* C16: every copy into a uniform buffer recorded by update_pipeline or by
\* Frame::copy has a source of the destination's element size and writes at
\* most size*count bytes of the destination, and the destination's recorded
\* size and count stay as created.
C16_UniformCopiesRespectDestination ==
    /\ buffers = FrameBuffers
    /\ \A f \in Frames : \A i \in 1..Len(issued[f]) :
          LET c == issued[f][i]
          IN  c.type = "CopyBufferToBuffer" =>
                 /\ c.src.size = buffers[c.dst].size
                 /\ c.dst_offset + c.size <=
                       buffers[c.dst].size * buffers[c.dst].count

\* C17: drawing a vertex buffer of n elements without a range, by
\* draw_buffer or by drawing the VertexBuffer, binds it as vertex buffer 0
\* and records exactly one draw, of vertices [0, n) and instances [0, 1); a
\* buffer of 6 vertices has 6 vertices drawn.
C17_DrawBufferDrawsAll ==
    call.op \in {"draw_buffer", "draw"} =>
        LET new == Appended
            k == Len(new)
            n == buffers[call.arg.buf].size
        IN  /\ k = IF call.op = "draw" THEN 3 ELSE 2
            /\ new[k - 1].type = "SetVertexBuffers"
            /\ new[k - 1].start_slot = 0
            /\ new[k - 1].buffer = call.arg.buf
            /\ new[k - 1].offset = 0
            /\ new[k].type = "Draw"
            /\ new[k].vertices = <<0, n>>
            /\ new[k].instances = <<0, 1>>
            /\ \A i \in 1..(k - 1) : new[i].type # "Draw"
            /\ buffers[call.arg.buf] = Device_create_buffer(6) =>
                  new[k].vertices[2] - new[k].vertices[1] = 6

C17_Witness ==
    /\ call.op = "draw"
    /\ buffers[call.arg.buf] = Device_create_buffer(6)
    /\ Len(Appended) = 3
    /\ Appended[3].type = "Draw"

\* C18: draw_buffer_range(buf, start..end) draws exactly the elements
\* [start, end) with instances [0, 1), and every draw it records stays inside
\* the buffer: 0 <= start <= end <= buf.size.
C18_RangeWithinBuffer ==
    call.op = "draw_buffer_range" =>
        LET new == Appended
            d == new[Len(new)]
        IN  /\ Len(new) = 2
            /\ d.type = "Draw"
            /\ d.vertices = call.arg.range
            /\ d.instances = <<0, 1>>
            /\ 0 <= d.vertices[1]
            /\ d.vertices[1] <= d.vertices[2]
            /\ d.vertices[2] <= buffers[call.arg.buf].size

---------------------------------------------------------------------------
(* SwapChain.  next(&mut self) returns a SwapChainTexture<'_> that keeps   *)
(* the swap chain mutably borrowed until it is dropped; dropping it drops  *)
(* the wgpu::SwapChainOutput, which presents the image.  Images are        *)
(* numbered in the order they are acquired; `presented` is history.        *)

PresentModeIn == {"Vsync", "NoVsync"}

SwapChain_descriptor(width, height, mode) ==
    [usage |-> {"OUTPUT_ATTACHMENT"}, format |-> "Bgra8Unorm",
     present_mode |-> mode, width |-> width, height |-> height]

Renderer_swap_chain(w, h, mode) ==
    [wgpu |-> SwapChain_descriptor(w, h, mode), width |-> w, height |-> h,
     image |-> 0, acquired |-> 0, presented |-> <<>>]

\* The swap chain is mutably borrowed by a live SwapChainTexture.
SwapChainBorrowed_never(c) == FALSE

SwapChainBorrowed(c) == c.image # 0

SwapChain_next(c) ==
    [c EXCEPT !.image = c.acquired + 1, !.acquired = c.acquired + 1]

\* Drop of the SwapChainTexture: the image is presented.
SwapChainTexture_drop(c) ==
    [c EXCEPT !.image = 0, !.presented = Append(@, c.image)]

CreateSwapChain(w, h, mode) ==
    /\ Running /\ pc = "idle"
    /\ Called
    /\ chains' = Append(chains, Renderer_swap_chain(w, h, mode))
    /\ call' = [op |-> "swap_chain", chain |-> Len(chains) + 1]
    /\ UNCHANGED <<textures, pc, enc, nops, queue, fatal, layouts, groups,
                   backend, buffers, frames, issued, commands, calls, gpu,
                   reads>>

SwapChainNext(s) ==
    /\ Running
    /\ ~SwapChainBorrowed(chains[s])
    /\ Called
    /\ chains' = [chains EXCEPT ![s] = SwapChain_next(@)]
    /\ call' = [op |-> "next", chain |-> s]
    /\ UNCHANGED <<textures, pc, enc, nops, queue, fatal, layouts, groups,
                   backend, buffers, frames, issued, commands, calls, gpu,
                   reads>>

\* The SwapChainTexture goes out of scope.
SwapChainTextureDrop(s) ==
    /\ Running
    /\ chains[s].image # 0
    /\ chains' = [chains EXCEPT ![s] = SwapChainTexture_drop(@)]
    /\ call' = [op |-> "release", chain |-> s]
    /\ UNCHANGED <<textures, pc, enc, nops, queue, fatal, layouts, groups,
                   backend, buffers, frames, ncalls, issued, commands, calls,
                   gpu, reads>>

SwapNext ==
    \/ \E w \in DimIn, h \in DimIn, mode \in PresentModeIn :
          CreateSwapChain(w, h, mode)
    \/ \E s \in 1..Len(chains) : SwapChainNext(s)
    \/ \E s \in 1..Len(chains) : SwapChainTextureDrop(s)

SpecSwap == Init /\ [][SwapNext]_vars

\* C19: a SwapChain has at most one image outstanding: every image acquired
\* by next() but the outstanding one has been presented, exactly once and in
\* the order acquired, and the outstanding image, if any, is the one the
\* last next() yielded and has not been presented.
C19_OneImageOutstanding ==
    \A s \in 1..Len(chains) :
        LET c == chains[s]
            outstanding == c.acquired - Len(c.presented)
        IN  /\ outstanding \in {0, 1}
            /\ c.image # 0 <=> outstanding = 1
            /\ c.image # 0 => c.image = c.acquired
            /\ c.presented = [i \in 1..Len(c.presented) |-> i]

C19_Witness ==
    \E s \in 1..Len(chains) :
        /\ chains[s].acquired = 2
        /\ chains[s].presented = <<1>>
        /\ chains[s].image = 2

---------------------------------------------------------------------------
(* VertexFormat and VertexLayout::from *)

VertexFormat == {"Float", "Float2", "Float3", "Float4", "UByte4"}

VertexFormat_bytesize(vf) ==
    CASE vf = "Float" -> 4
      [] vf = "Float2" -> 8
      [] vf = "Float3" -> 12
      [] vf = "Float4" -> 16
      [] vf = "UByte4" -> 4

VertexFormat_to_wgpu(vf) == IF vf = "UByte4" THEN "Uchar4Norm" ELSE vf

VertexLayout_default == [wgpu_attrs |-> <<>>, size |-> 0]

\* One iteration of the loop of VertexLayout::from.
VertexLayout_push_after(vl, vf) ==
    [wgpu_attrs |->
        Append(vl.wgpu_attrs,
               [shader_location |-> AsU32(Len(vl.wgpu_attrs)),
                offset |-> vl.size + VertexFormat_bytesize(vf),
                format |-> VertexFormat_to_wgpu(vf)]),
     size |-> vl.size + VertexFormat_bytesize(vf)]

VertexLayout_push(vl, vf) ==
    [wgpu_attrs |->
        Append(vl.wgpu_attrs,
               [shader_location |-> AsU32(Len(vl.wgpu_attrs)),
                offset |-> vl.size,
                format |-> VertexFormat_to_wgpu(vf)]),
     size |-> vl.size + VertexFormat_bytesize(vf)]

RECURSIVE VertexLayout_fold(_, _)
VertexLayout_fold(vl, formats) ==
    IF formats = <<>> THEN vl
    ELSE VertexLayout_fold(VertexLayout_push(vl, Head(formats)), Tail(formats))

VertexLayout_from(formats) == VertexLayout_fold(VertexLayout_default, formats)

VertexLayout_to_wgpu(vl) ==
    [stride |-> vl.size, step_mode |-> "Vertex", attributes |-> vl.wgpu_attrs]

FormatsIn == UNION {[1..k -> VertexFormat] : k \in 0..MaxFormats}

VertexLayoutFrom(formats) ==
    /\ Running
    /\ Called
    /\ call' = [op |-> "VertexLayout::from", formats |-> formats,
                vl |-> VertexLayout_from(formats)]
    /\ UNCHANGED <<textures, pc, enc, nops, queue, fatal, layouts, groups,
                   backend, buffers, frames, issued, commands, calls, gpu,
                   reads, chains>>

LayoutNext == \E formats \in FormatsIn : VertexLayoutFrom(formats)

SpecLayout == Init /\ [][LayoutNext]_vars

\* The byte sizes of the attribute formats.
AttrBytes(vf) ==
    IF vf \in {"Float", "UByte4"} THEN 4
    ELSE IF vf = "Float2" THEN 8
    ELSE IF vf = "Float3" THEN 12
    ELSE 16

RECURSIVE SumBytes(_, _)
SumBytes(formats, n) ==
    IF n = 0 THEN 0 ELSE SumBytes(formats, n - 1) + AttrBytes(formats[n])

\* C20: VertexLayout::from gives the i-th attribute (from 0) shader location
\* i and the byte offset that is the sum of the sizes of the attributes
\* before it; the stride is the sum of the sizes of all attributes; an empty
\* list gives stride 0 and no attributes.
C20_LayoutOffsetsAndStride ==
    call.op = "VertexLayout::from" =>
        LET attrs == call.vl.wgpu_attrs
            n == Len(call.formats)
        IN  /\ Len(attrs) = n
            /\ \A i \in 1..n :
                  /\ attrs[i].shader_location = i - 1
                  /\ attrs[i].offset = SumBytes(call.formats, i - 1)
            /\ VertexLayout_to_wgpu(call.vl).stride = SumBytes(call.formats, n)
            /\ n = 0 =>
                  /\ VertexLayout_to_wgpu(call.vl).stride = 0
                  /\ VertexLayout_to_wgpu(call.vl).attributes = <<>>

C20_Witness ==
    /\ call.op = "VertexLayout::from"
    /\ call.formats = <<"Float3", "UByte4", "Float2">>
    /\ call.vl.wgpu_attrs[3].offset = 16
    /\ call.vl.size = 24

---------------------------------------------------------------------------
(* Rect<T>::contains, normalized and clamped, for an integer T (normalized *)
(* and clamped need T: Ord).  The methods are pure: `call` holds the       *)
(* rectangle and the argument first and the method's result afterwards.    *)

Min2(a, b) == IF a <= b THEN a ELSE b

Max2(a, b) == IF a >= b THEN a ELSE b

Point2(x, y) == [x |-> x, y |-> y]

Rect_contains(r, p) ==
    p.x >= r.x1 /\ p.x <= r.x2 /\ p.y >= r.y1 /\ p.y <= r.y2

Rect_normalized_x(r) ==
    Rect(Min2(r.x1, r.x2), r.y1, Max2(r.x1, r.x2), r.y2)

Rect_normalized(r) ==
    Rect(Min2(r.x1, r.x2), Min2(r.y1, r.y2), Max2(r.x1, r.x2), Max2(r.y1, r.y2))

Rect_clamped(r, bounds) ==
    Rect(Max2(r.x1, bounds.x1), Max2(r.y1, bounds.y1),
         Min2(r.x2, bounds.x2), Min2(r.y2, bounds.y2))

\* Coordinates of the rectangles and of the points tried.
CoordIn == {-1, 0, 2, 3}

RectIntIn == {Rect(x1, y1, x2, y2) : x1 \in CoordIn, y1 \in CoordIn,
                                     x2 \in CoordIn, y2 \in CoordIn}

BoundsIn == {Rect(0, 0, 2, 2), Rect(0, 0, 0, 0), Rect(-1, 0, 3, 2),
             Rect(2, 2, 0, 0)}

PointIn == {Point2(x, y) : x \in -2..4, y \in -2..4}

\* The caller holds a rectangle and a point or bounds to try it on.
RectInit ==
    /\ textures = <<>>
    /\ pc = "idle"
    /\ enc = <<>>
    /\ nops = 0
    /\ queue = <<>>
    /\ fatal = "none"
    /\ call \in {[op |-> "rect", r |-> r, arg |-> arg] :
                    r \in RectIntIn, arg \in PointIn \cup BoundsIn}
    /\ layouts = <<>>
    /\ groups = <<>>
    /\ backend = 0
    /\ buffers = <<>>
    /\ frames = <<>>
    /\ ncalls = 0
    /\ issued = <<>>
    /\ commands = <<>>
    /\ calls = <<>>
    /\ gpu = NoGpuWork
    /\ reads = <<>>
    /\ chains = <<>>

RectPure ==
    UNCHANGED <<textures, pc, enc, nops, queue, fatal, layouts, groups,
                backend, buffers, frames, ncalls, issued, commands, calls,
                gpu, reads, chains>>

RectContains ==
    /\ call.op = "rect" /\ call.arg \in PointIn
    /\ call' = [op |-> "contains", r |-> call.r, p |-> call.arg,
                result |-> Rect_contains(call.r, call.arg)]
    /\ RectPure

RectNormalized ==
    /\ call.op = "rect"
    /\ call' = [op |-> "normalized", r |-> call.r,
                result |-> Rect_normalized(call.r),
                twice |-> Rect_normalized(Rect_normalized(call.r))]
    /\ RectPure

RectClamped ==
    /\ call.op = "rect" /\ call.arg \in BoundsIn
    /\ call' = [op |-> "clamped", r |-> call.r, bounds |-> call.arg,
                result |-> Rect_clamped(call.r, call.arg)]
    /\ RectPure

RectNext == RectContains \/ RectNormalized \/ RectClamped

SpecRect == RectInit /\ [][RectNext]_vars

---------------------------------------------------------------------------
(* Properties of Rect *)

NonNegativeExtent(r) == r.x1 <= r.x2 /\ r.y1 <= r.y2

\* Every coordinate of r is within the bounds' intervals.
Inside(r, b) ==
    /\ b.x1 <= r.x1 /\ r.x1 <= b.x2
    /\ b.x1 <= r.x2 /\ r.x2 <= b.x2
    /\ b.y1 <= r.y1 /\ r.y1 <= b.y2
    /\ b.y1 <= r.y2 /\ r.y2 <= b.y2

\* C21: when bounds and r both have non-negative extents, r.clamped(bounds)
\* lies fully inside bounds; when r already lies inside bounds the result
\* is r.
C21_ClampedInsideBounds ==
    call.op = "clamped" =>
        /\ (NonNegativeExtent(call.r) /\ NonNegativeExtent(call.bounds)) =>
              Inside(call.result, call.bounds)
        /\ Inside(call.r, call.bounds) => call.result = call.r

Abs(n) == IF n < 0 THEN -n ELSE n

\* C22: each of a rectangle's own four corners is contained, and a point one
\* unit outside an edge of the normalized rectangle is not.
C22_CornersContained ==
    call.op = "contains" =>
        LET r == call.r
            p == call.p
            lo == Rect(IF r.x1 <= r.x2 THEN r.x1 ELSE r.x2,
                       IF r.y1 <= r.y2 THEN r.y1 ELSE r.y2,
                       IF r.x1 <= r.x2 THEN r.x2 ELSE r.x1,
                       IF r.y1 <= r.y2 THEN r.y2 ELSE r.y1)
        IN  /\ (p.x \in {r.x1, r.x2} /\ p.y \in {r.y1, r.y2}) => call.result
            /\ (\/ p.x = lo.x1 - 1 \/ p.x = lo.x2 + 1
                \/ p.y = lo.y1 - 1 \/ p.y = lo.y2 + 1) => ~call.result

\* C23: normalizing twice gives the normalized rectangle; the normalized
\* rectangle has x1 <= x2 and y1 <= y2; its width is |x2 - x1| of the
\* original, which is the original's width, and likewise its height.
C23_NormalizedIdempotent ==
    call.op = "normalized" =>
        LET r == call.r
            n == call.result
        IN  /\ call.twice = n
            /\ n.x1 <= n.x2 /\ n.y1 <= n.y2
            /\ Rect_width(n) = Abs(r.x2 - r.x1)
            /\ Rect_width(n) = Rect_width(r)
            /\ Rect_height(n) = Abs(r.y2 - r.y1)
            /\ Rect_height(n) = Rect_height(r)

C23_Witness ==
    /\ call.op = "normalized"
    /\ call.r = Rect(3, 2, -1, 0)
    /\ call.result = Rect(-1, 0, 3, 2)

---------------------------------------------------------------------------
(* Device::create_pipeline_layout: a PipelineLayout holds one              *)
(* BindingGroupLayout per Set of the description, made in the order of the *)
(* slice.  The run starts with a Pass open on a frame of a framebuffer,    *)
(* so that groups made from the sets can be activated.                     *)

\* The descriptions (&[Set]) of the runs are the prefixes of this list.
SetList ==
    <<SubSeq(SlotList, 1, 1), SubSeq(SlotList, 1, 2), SubSeq(SlotList, 1, 0),
      SubSeq(SlotList, 1, 1)>>

SetsIn == {SubSeq(SetList, 1, k) : k \in 0..MaxSets}

Device_create_pipeline_layout_same(ss) ==
    [sets |-> [i \in 1..Len(ss) |->
                  Device_create_binding_group_layout(0, ss[i])]]

\* for (i, s) in ss.iter().enumerate(): i counts from zero.
Device_create_pipeline_layout(ss) ==
    [sets |-> [i \in 1..Len(ss) |->
                  Device_create_binding_group_layout(i - 1, ss[i])]]

CreatePipelineLayout(ss) ==
    /\ Running
    /\ Called
    /\ layouts' = layouts \o Device_create_pipeline_layout(ss).sets
    /\ call' = [op |-> "create_pipeline_layout", first |-> Len(layouts),
                n |-> Len(ss)]
    /\ UNCHANGED <<textures, pc, enc, nops, queue, fatal, groups, backend,
                   buffers, frames, issued,
                   commands, calls, gpu, reads, chains>>

SetsPass ==
    <<BeginRenderPass([texture |-> 1, format |-> "Bgra8Unorm"], PassLoad)>>

SetsInit ==
    /\ textures = <<Device_create_framebuffer(1, 1)>>
    /\ pc = "idle"
    /\ enc = <<>>
    /\ nops = 0
    /\ queue = <<>>
    /\ fatal = "none"
    /\ call = NoCall
    /\ layouts = <<>>
    /\ groups = <<>>
    /\ backend = 0
    /\ buffers = FrameBuffers
    /\ frames = <<[Frame_new(SetsPass) EXCEPT !.pass = TRUE]>>
    /\ ncalls = 0
    /\ issued = <<SetsPass>>
    /\ commands = <<>>
    /\ calls = <<>>
    /\ gpu = NoGpuWork
    /\ reads = <<>>
    /\ chains = <<>>

SetsNext ==
    \/ \E ss \in SetsIn : CreatePipelineLayout(ss)
    \/ \E l \in 1..Len(layouts), binds \in BindsIn :
          CreateBindingGroup(l, binds)
    \/ \E f \in 1..Len(frames), g \in 1..Len(groups) : PassSetBinding(f, g)
    \/ \E f \in 1..Len(frames), b \in BuffersOf("VertexBuffer"),
          g \in 1..Len(groups) : PassDraw(f, b, g)

SpecSets == SetsInit /\ [][SetsNext]_vars

\* The layouts a group can have been created from: those with its backend
\* layout.
LayoutsOf(g) == {l \in 1..Len(layouts) : layouts[l].wgpu = groups[g].wgpu.layout}

\* The groups activated by the commands of a frame, with the index used.
Activations ==
    UNION {{frames[f].encoder[k] : k \in 1..Len(frames[f].encoder)} :
              f \in 1..Len(frames)}
        \cap {SetBindGroup(i, g, <<>>) : i \in 0..MaxSets, g \in 1..Len(groups)}

\* C24: the i-th set of a pipeline layout has set index i (from zero), a
\* group has the set index of the layout it was created from, and every
\* activation of a group uses the group's set index.
C24_SetIndicesPositional ==
    /\ call.op = "create_pipeline_layout" =>
          /\ Len(layouts) = call.first + call.n
          /\ \A i \in 1..call.n : layouts[call.first + i].set_index = i - 1
    /\ (call.op = "create_binding_group" /\ GroupCreated) =>
          groups[Len(groups)].set_index = layouts[call.layout].set_index
    /\ \A f \in 1..Len(frames) : \A k \in 1..Len(frames[f].encoder) :
          LET c == frames[f].encoder[k]
          IN  c.type = "SetBindGroup" =>
                 /\ c.index = groups[c.group].set_index
                 /\ \E l \in LayoutsOf(c.group) : layouts[l].set_index = c.index

\* A group of the second set of a layout is activated at set index 1.
C24_Witness ==
    /\ call.op = "set_binding"
    /\ groups[call.arg].set_index = 1
    /\ SetBindGroup(1, call.arg, <<>>) \in Activations
    /\ Len(layouts) = 2

---------------------------------------------------------------------------
(* The targets of Frame::pass<T: TextureView>.  TextureView is implemented *)
(* for Framebuffer and for SwapChainTexture only.  A Framebuffer is a      *)
(* struct of one public field, `pub texture: Texture`: besides             *)
(* create_framebuffer, the struct expression `Framebuffer { texture }`     *)
(* makes one from any Texture, and Texture::from(fb) takes the Texture out *)
(* again.  Both move the same backend texture, whose format and usage were *)
(* fixed when it was created.                                              *)

\* Framebuffer { texture: tex }
Framebuffer_literal(tex) == [tex EXCEPT !.kind = "Framebuffer"]

\* impl From<Framebuffer> for Texture
Texture_from(fb) == [fb EXCEPT !.kind = "Texture"]

\* impl TextureView for SwapChainTexture<'_>: the view of the acquired image.
TextureView_SwapChainTexture(s) ==
    [chain |-> s, image |-> chains[s].image, format |-> chains[s].wgpu.format]

FramebufferLiteral(t) ==
    /\ Running
    /\ textures[t].kind = "Texture"
    /\ textures' = [textures EXCEPT ![t] = Framebuffer_literal(@)]
    /\ call' = [op |-> "Framebuffer", t |-> t]
    /\ UNCHANGED <<pc, enc, nops, queue, fatal, layouts, groups, backend,
                   buffers, frames, ncalls, issued, commands, calls, gpu,
                   reads, chains>>

TextureFrom(t) ==
    /\ Running
    /\ textures[t].kind = "Framebuffer"
    /\ textures' = [textures EXCEPT ![t] = Texture_from(@)]
    /\ call' = [op |-> "from", t |-> t]
    /\ UNCHANGED <<pc, enc, nops, queue, fatal, layouts, groups, backend,
                   buffers, frames, ncalls, issued, commands, calls, gpu,
                   reads, chains>>

\* Frame::pass on the image a SwapChainTexture holds.
FramePassSwap(f, op, s) ==
    /\ FrameUsable(f) /\ Called
    /\ chains[s].image # 0
    /\ Record(f, Frame_pass(frames[f].encoder, op, TextureView_SwapChainTexture(s)),
              <<BeginRenderPass(TextureView_SwapChainTexture(s), op)>>, TRUE,
              "pass", [chain |-> s])

\* A framebuffer, a texture, a swap chain and a frame have been created.
TargetsInit ==
    /\ textures = <<Device_create_framebuffer(1, 1), Device_create_texture(2, 1)>>
    /\ pc = "idle"
    /\ enc = <<>>
    /\ nops = 0
    /\ queue = <<>>
    /\ fatal = "none"
    /\ call = NoCall
    /\ layouts = <<>>
    /\ groups = <<>>
    /\ backend = 0
    /\ buffers = <<>>
    /\ frames = <<Frame_new(<<>>)>>
    /\ ncalls = 0
    /\ issued = <<<<>>>>
    /\ commands = <<>>
    /\ calls = <<>>
    /\ gpu = NoGpuWork
    /\ reads = <<>>
    /\ chains = <<Renderer_swap_chain(1, 1, "Vsync")>>

TargetsNext ==
    \/ \E t \in 1..Len(textures) : FramebufferLiteral(t)
    \/ \E t \in 1..Len(textures) : TextureFrom(t)
    \/ \E s \in 1..Len(chains) : SwapChainNext(s)
    \/ \E s \in 1..Len(chains) : SwapChainTextureDrop(s)
    \/ \E f \in 1..Len(frames), op \in PassOpIn, t \in RenderTargets :
          FramePass(f, op, t)
    \/ \E f \in 1..Len(frames), op \in PassOpIn, s \in 1..Len(chains) :
          FramePassSwap(f, op, s)
    \/ \E f \in 1..Len(frames) : PassDrop(f)

SpecTargets == TargetsInit /\ [][TargetsNext]_vars

\* The view is that of a swap-chain image.
IsSwapImage(view) == "chain" \in DOMAIN view

\* The view is that of a texture made by create_framebuffer.
IsRenderAttachable(view) ==
    /\ "texture" \in DOMAIN view
    /\ textures[view.texture].format = "Bgra8Unorm"
    /\ "OUTPUT_ATTACHMENT" \in textures[view.texture].usage

\* C26: every render pass recorded in a frame is opened against a
\* render-attachable BGRA target, the texture of a framebuffer made by
\* create_framebuffer or a swap-chain image, never a texture made by
\* create_texture.
C26_PassTargetsAttachable ==
    \A f \in 1..Len(frames) : \A k \in 1..Len(frames[f].encoder) :
        LET c == frames[f].encoder[k]
        IN  c.type = "BeginRenderPass" =>
               /\ c.attachment.format = "Bgra8Unorm"
               /\ IsSwapImage(c.attachment) \/ IsRenderAttachable(c.attachment)

---------------------------------------------------------------------------
(* Renderer::update_pipeline as a step of the frame model. *)

\* The step is a call of update_pipeline on frame call'.f with the prepare
\* result call'.arg.
UpdatePipelineStep ==
    /\ call'.op \in {"update_pipeline", "update_pipeline_none"}
    /\ ncalls' = ncalls + 1

\* Nothing but frame f has changed in the step.
OnlyFrameChanged(f) ==
    /\ UNCHANGED <<textures, pc, enc, nops, queue, fatal, layouts, groups,
                   backend, buffers, commands, calls, gpu, reads, chains>>
    /\ Len(frames') = Len(frames)
    /\ \A g \in 1..Len(frames) : g # f => frames'[g] = frames[g]
    /\ frames'[f].state = frames[f].state

\* C27: update_pipeline appends exactly one buffer-to-buffer copy, of the
\* uniform data to the pipeline's buffer, to the frame's commands when
\* prepare returns data and leaves them as they are when it returns
\* nothing; it submits nothing and changes nothing but that frame.
C27_UpdatePipelineRecordsOneCopy ==
    [][UpdatePipelineStep =>
          LET f == call'.f
              prep == call'.arg
              before == frames[f].encoder
              after == frames'[f].encoder
          IN  /\ OnlyFrameChanged(f)
              /\ prep.some =>
                    /\ Len(after) = Len(before) + 1
                    /\ SubSeq(after, 1, Len(before)) = before
                    /\ after[Len(after)].type = "CopyBufferToBuffer"
                    /\ after[Len(after)].dst = prep.buf
                    /\ after[Len(after)].size = prep.elemSize * prep.len
              /\ ~prep.some => after = before]_vars

\* update_pipeline with uniform data has recorded its copy after an earlier
\* command of the frame.
C27_Witness ==
    /\ call.op = "update_pipeline"
    /\ call.arg.some
    /\ call.before > 0
    /\ Len(frames[call.f].encoder) = call.before + 1
    /\ frames[call.f].encoder[call.before + 1].type = "CopyBufferToBuffer"
    /\ queue = <<>>

====
